---- MODULE Spec2Model ----
(***************************************************************************)
(* The batch pipeline of etl.py: process_song_data builds and writes the   *)
(* songs and artists tables, process_log_data builds and writes the users  *)
(* and time tables, reads the songs table back from the destination,       *)
(* joins the log against it and writes the songplays table.                *)
(*                                                                         *)
(* A DataFrame is a bag of rows (Spark keeps no row order), a row is a     *)
(* record from column names to values, and a destination path holds a bag  *)
(* of stored rows, each under the partition directory it was written to.   *)
(***************************************************************************)
EXTENDS Integers, Sequences, FiniteSets, Bags, TLC

\* Largest number of records under song_data / log_data that is explored.
MaxSongRows == 3
MaxLogRows == 3

\* JSON null in a string column.
Null == "<null>"

-----------------------------------------------------------------------------
(* Values of the ts column.  A millisecond epoch does not fit the model     *)
(* checker's 32-bit integers, so a long x is held as sign, |x| div 1000 and *)
(* |x| mod 1000.                                                            *)
Long(neg, q, r) == [kind |-> "long", neg |-> neg, q |-> q, r |-> r]
NullTs == [kind |-> "null", neg |-> FALSE, q |-> 0, r |-> 0]
TextTs == [kind |-> "string", neg |-> FALSE, q |-> 0, r |-> 0]

\* int(int(x)/1000) of lines 84 and 88: int() truncates towards zero.
EpochSeconds(x) == IF x.neg THEN 0 - x.q ELSE x.q

\* int(x) raises TypeError on None and ValueError on text that is no number.
IntRaises(x) == x.kind # "long"

-----------------------------------------------------------------------------
(* datetime, as the standard library computes it.                           *)

IsLeap(y) == y % 4 = 0 /\ (y % 100 # 0 \/ y % 400 = 0)

DaysInMonth(y, m) ==
    IF m = 2 THEN (IF IsLeap(y) THEN 29 ELSE 28)
    ELSE IF m \in {4, 6, 9, 11} THEN 30 ELSE 31

RECURSIVE DaysBeforeMonth(_, _)
DaysBeforeMonth(y, m) ==
    IF m = 1 THEN 0 ELSE DaysBeforeMonth(y, m - 1) + DaysInMonth(y, m - 1)

DaysBeforeYear(y) ==
    (y - 1) * 365 + ((y - 1) \div 4) - ((y - 1) \div 100) + ((y - 1) \div 400)

\* _ymd2ord: the proleptic Gregorian ordinal, 0001-01-01 is day 1.
Ymd2Ord(y, m, d) == DaysBeforeYear(y) + DaysBeforeMonth(y, m) + d

\* _ord2ymd.
Ord2Ymd(ord) ==
    LET n0   == ord - 1
        n400 == n0 \div 146097
        n1r  == n0 % 146097
        n100 == n1r \div 36524
        n2r  == n1r % 36524
        n4   == n2r \div 1461
        n3r  == n2r % 1461
        n1   == n3r \div 365
        n    == n3r % 365
        year == n400 * 400 + 1 + n100 * 100 + n4 * 4 + n1
        leap == n1 = 3 /\ (n4 # 24 \/ n100 = 3)
        m0   == (n + 50) \div 32
        p0   == DaysBeforeMonth(IF leap THEN 2000 ELSE 2001, m0)
        month == IF p0 > n THEN m0 - 1 ELSE m0
        prec  == IF p0 > n
                 THEN p0 - DaysInMonth(IF leap THEN 2000 ELSE 2001, m0 - 1)
                 ELSE p0
    IN  IF n1 = 4 \/ n100 = 4
        THEN [year |-> year - 1, month |-> 12, day |-> 31]
        ELSE [year |-> year, month |-> month, day |-> n - prec + 1]

\* datetime.fromtimestamp(secs) in the local zone, offset seconds east of UTC.
FromTimestamp(secs, offset) ==
    LET loc  == secs + offset
        days == loc \div 86400
        sod  == loc % 86400
        ymd  == Ord2Ymd(719163 + days)
    IN  [year |-> ymd.year, month |-> ymd.month, day |-> ymd.day,
         hour |-> sod \div 3600, minute |-> (sod % 3600) \div 60,
         second |-> sod % 60]

\* datetime.weekday(): Monday is 0.
Weekday(dt) == (Ymd2Ord(dt.year, dt.month, dt.day) + 6) % 7

\* calendar.day_name.
DayName(i) ==
    <<"Monday", "Tuesday", "Wednesday", "Thursday", "Friday", "Saturday",
      "Sunday">>[i + 1]

\* _isoweek1monday.
IsoWeek1Monday(y) ==
    LET firstday     == Ymd2Ord(y, 1, 1)
        firstweekday == (firstday + 6) % 7
        monday       == firstday - firstweekday
    IN  IF firstweekday > 3 THEN monday + 7 ELSE monday

\* datetime.isocalendar()[1].
IsoWeek(dt) ==
    LET today == Ymd2Ord(dt.year, dt.month, dt.day)
        week  == (today - IsoWeek1Monday(dt.year)) \div 7
    IN  IF week < 0
        THEN ((today - IsoWeek1Monday(dt.year - 1)) \div 7) + 1
        ELSE IF week >= 52 /\ today >= IsoWeek1Monday(dt.year + 1)
             THEN 1
             ELSE week + 1

-----------------------------------------------------------------------------
(* DataFrames.                                                              *)

RECURSIVE SumCopies(_, _)
SumCopies(b, S) ==
    IF S = {} THEN 0
    ELSE LET r == CHOOSE r \in S : TRUE
         IN  b[r] + SumCopies(b, S \ {r})

\* A row-wise transformation of a frame: equal results add up.
\* f gives the new row of each row of b.
MapRows(f, b) ==
    LET rows == BagToSet(b)
    IN  [y \in {f[r] : r \in rows} |->
            SumCopies(b, {r \in rows : f[r] = y})]

\* df[c1, ..., cn]
Select(b, cols) ==
    MapRows([r \in BagToSet(b) |-> [c \in cols |-> r[c]]], b)

\* A frame that keeps its duplicates.
KeepDuplicates(b) == b

\* DataFrame.distinct()
Distinct(b) == SetToBag(BagToSet(b))

\* Column equality of SQL: NULL equals nothing.
SqlEq(a, b) == a # Null /\ b # Null /\ a = b

\* A join that keeps every pair of rows, whatever their titles.
CrossJoin(left, right) ==
    [j \in {[l |-> p[1], r |-> p[2]] :
               p \in BagToSet(left) \X BagToSet(right)} |->
        left[j.l] * right[j.r]]

\* A left outer join: a log row without a match is kept, with NULL for the
\* columns of the songs table (0 stands for it in the number columns).
LeftJoin(left, right) ==
    LET pairs == {p \in BagToSet(left) \X BagToSet(right) :
                     SqlEq(p[2].title, p[1].song)}
        alone == {e \in BagToSet(left) :
                     \A t \in BagToSet(right) : ~SqlEq(t.title, e.song)}
        nulls == [song_id |-> Null, title |-> Null, artist_id |-> Null,
                  year |-> 0, duration |-> 0]
    IN  [j \in {[l |-> p[1], r |-> p[2]] : p \in pairs}
               \cup {[l |-> e, r |-> nulls] : e \in alone} |->
            IF j.r = nulls THEN left[j.l] ELSE left[j.l] * right[j.r]]

\* left.join(right, right.title == left.song): an inner join.  A joined row
\* keeps both sides apart, since both may carry a column of the same name.
Join(left, right) ==
    LET pairs == {p \in BagToSet(left) \X BagToSet(right) :
                     SqlEq(p[2].title, p[1].song)}
    IN  [j \in {[l |-> p[1], r |-> p[2]] : p \in pairs} |->
            left[j.l] * right[j.r]]

\* A column of a joined row, found on the one side that has it.
Column(j, c) == IF c \in DOMAIN j.l THEN j.l[c] ELSE j.r[c]

SelectJoined(b, cols) ==
    MapRows([j \in BagToSet(b) |-> [c \in cols |-> Column(j, c)]], b)

RECURSIVE BagsUpTo(_, _)
\* Every bag of at most n rows drawn from S.
BagsUpTo(S, n) ==
    IF n = 0 THEN {EmptyBag}
    ELSE LET smaller == BagsUpTo(S, n - 1)
         IN  smaller \cup {b (+) SetToBag({r}) : b \in smaller, r \in S}

-----------------------------------------------------------------------------
(* Columns.                                                                 *)

SongColumns == {"song_id", "title", "artist_id", "year", "duration"}
ArtistColumns == {"artist_id", "artist_name", "artist_location",
                  "artist_latitude", "artist_longitude"}
UserColumns == {"userId", "firstName", "lastName", "gender", "level"}
LogSongplayColumns == {"ts", "userId", "level", "sessionId", "location",
                       "userAgent"}
TimeColumns == {"start_time", "hour", "day", "week", "month", "year",
                "weekday"}
SongplayColumns == {"start_time", "userId", "level", "song_id", "artist_id",
                    "sessionId", "location", "userAgent"}

SongPartition == {"year", "artist_id"}
TimePartition == {"year", "month"}
SongplayPartition == {"year", "month"}
NoPartition == {}

Tables == {"songs_table", "artists_table", "users_table", "time_table",
           "songplays_table"}

-----------------------------------------------------------------------------
(* The records under song_data and log_data that are explored.              *)

SongRecord(id, title, artist, year) ==
    [song_id |-> id, title |-> title, artist_id |-> artist, year |-> year,
     duration |-> 210, artist_name |-> "Name of " \o artist,
     artist_location |-> Null, artist_latitude |-> Null,
     artist_longitude |-> Null]

LogRecord(ts, user, level, song, page) ==
    [ts |-> ts, userId |-> user, firstName |-> "First", lastName |-> "Last",
     gender |-> "F", level |-> level, sessionId |-> 1, location |-> "Town",
     userAgent |-> "Agent", song |-> song, page |-> page]

SongRecords ==
    { SongRecord("S1", "Song A", "P1", 2000),
      SongRecord("S2", "Song B", "P2", 1999),
      SongRecord("S3", "Song A", "P2", 1999) }

LogRecords ==
    { LogRecord(Long(FALSE, 1000000000, 0), "U1", "free", "Song A", "NextSong"),
      LogRecord(Long(FALSE, 1546300800, 0), "U1", "paid", "Song B", "NextSong"),
      LogRecord(Long(FALSE, 1000000000, 500), "U2", "free", Null, "Home"),
      LogRecord(Long(FALSE, 1000000000, 0), "U2", "free", "Song B", "Home"),
      LogRecord(Long(FALSE, 1546300800, 0), "U2", "free", "Song Z", "NextSong"),
      LogRecord(NullTs, "U1", "free", "Song B", "NextSong"),
      LogRecord(TextTs, "U1", "free", "Song B", "NextSong"),
      LogRecord(Long(TRUE, 1, 500), "U1", "free", "Song B", "NextSong") }

\* What an earlier run found under the two paths.
EarlierSongData == SetToBag({SongRecord("S0", "Song B", "P0", 1990)})
EarlierLogData ==
    SetToBag({LogRecord(Long(FALSE, 86400, 0), "U0", "free", "Song B", "NextSong")})

\* Offsets of the local zone, in seconds east of UTC.
ZoneOffsets == {0, 0 - 18000}

-----------------------------------------------------------------------------
(* The user-defined functions of lines 88 to 94.  udf() is given no return  *)
(* type, which declares a string column: a number is kept as its decimal    *)
(* text.  start_time stays the datetime it is handed on as.                 *)

Raised == "<raised>"
RaisedDatetime == [raised |-> TRUE]

\* A conversion that raises on nothing.
NeverRaises(x, negOk) == FALSE

\* get_datetime raises where int() does, and where the platform's localtime
\* refuses a negative epoch.
DatetimeRaises(x, negOk) ==
    IntRaises(x) \/ (EpochSeconds(x) < 0 /\ ~negOk)

get_datetime(x, offset, negOk) ==
    IF DatetimeRaises(x, negOk) THEN RaisedDatetime
    ELSE FromTimestamp(EpochSeconds(x), offset)

\* Line 84.
get_timestamp(x) == IF IntRaises(x) THEN Raised ELSE ToString(EpochSeconds(x))

get_week(dt) == IF dt = RaisedDatetime THEN Raised ELSE DayName(Weekday(dt))
get_weekday(dt) == IF dt = RaisedDatetime THEN Raised ELSE ToString(IsoWeek(dt))
get_hour(dt) == IF dt = RaisedDatetime THEN Raised ELSE ToString(dt.hour)
get_day(dt) == IF dt = RaisedDatetime THEN Raised ELSE ToString(dt.day)
get_year(dt) == IF dt = RaisedDatetime THEN Raised ELSE ToString(dt.year)
get_month(dt) == IF dt = RaisedDatetime THEN Raised ELSE ToString(dt.month)

\* Lines 85 and 96 to 102: the withColumn calls on one log row.
WithTimeColumns(e, offset, negOk) ==
    LET dt == get_datetime(e.ts, offset, negOk)
    IN  [c \in DOMAIN e \cup {"timestamp"} \cup TimeColumns |->
            CASE c = "timestamp"  -> get_timestamp(e.ts)
              [] c = "start_time" -> dt
              [] c = "hour"       -> get_hour(dt)
              [] c = "day"        -> get_day(dt)
              [] c = "week"       -> get_week(dt)
              [] c = "month"      -> get_month(dt)
              [] c = "year"       -> get_year(dt)
              [] c = "weekday"    -> get_weekday(dt)
              [] OTHER            -> e[c]]

\* A row whose evaluation raises fails the job that computes it.
RowRaises(r) == "start_time" \in DOMAIN r /\ r.start_time = RaisedDatetime

-----------------------------------------------------------------------------
(* The destination.                                                         *)

\* The rows of a frame as a partitioned write lays them out: the partition
\* columns become the directory, the other columns stay in the file.
Layout(frame, cols, partCols) ==
    MapRows([r \in BagToSet(frame) |->
                [dir  |-> [c \in partCols |-> r[c]],
                 data |-> [c \in cols \ partCols |-> r[c]]]], frame)

\* spark.read.parquet: the partition columns come back from the directories.
ReadParquet(files) ==
    MapRows([f \in BagToSet(files) |-> f.data @@ f.dir], files)

Absent == [status |-> "absent", run |-> "none", files |-> EmptyBag]
Stored(status, run, files) == [status |-> status, run |-> run, files |-> files]

\* What a write can leave: every row (the write succeeded) or, when a task
\* or the sink failed, any part of the rows that could be computed.
SinkOutcomes(frame, cols, partCols) ==
    LET good == [r \in {q \in BagToSet(frame) : ~RowRaises(q)} |-> frame[r]]
    IN  (IF good = frame
         THEN {Stored("complete", "this", Layout(frame, cols, partCols))}
         ELSE {})
        \cup {Stored("partial", "this", part) :
                 part \in SubBag(Layout(good, cols, partCols))}

\* The destination as an earlier run of this program left it: its last
\* write raised, so there is no songplays table.
EarlierStore(offset, negOk) ==
    LET complete(frame, cols, partCols) ==
            Stored("complete", "earlier", Layout(frame, cols, partCols))
        log == MapRows([e \in BagToSet(EarlierLogData) |->
                           WithTimeColumns(e, offset, negOk)], EarlierLogData)
    IN  [t \in Tables |->
            CASE t = "songs_table" ->
                    complete(Distinct(Select(EarlierSongData, SongColumns)),
                             SongColumns, SongPartition)
              [] t = "artists_table" ->
                    complete(Distinct(Select(EarlierSongData, ArtistColumns)),
                             ArtistColumns, NoPartition)
              [] t = "users_table" ->
                    complete(Distinct(Select(EarlierLogData, UserColumns)),
                             UserColumns, NoPartition)
              [] t = "time_table" ->
                    complete(Select(log, TimeColumns), TimeColumns,
                             TimePartition)
              [] OTHER -> Absent]

EmptyStore == [t \in Tables |-> Absent]

-----------------------------------------------------------------------------
(* The program.                                                             *)

VARIABLES
    pc,               \* the statement that runs next, "aborted" after a raise
    zone,             \* the local zone of the process, seconds east of UTC
    negEpoch,         \* whether the platform converts a negative epoch
    df,               \* the local df of the function that is running
    songs_table, artists_table,
    users_table, time_table, song_df, songplays_table,
    log_data,         \* the records under the log_data path, as line 72 read them
    store,            \* output_data: what each table's path holds
    prior,            \* output_data as it was when main() started
    failure           \* the statement that raised, and what it raised

locals == <<df, songs_table, artists_table, users_table, time_table, song_df,
            songplays_table>>
vars == <<pc, zone, negEpoch, df, songs_table, artists_table, users_table,
          time_table, song_df, songplays_table, log_data, store, prior,
          failure>>

NoFailure == [at |-> "none", error |-> "none"]

\* main() with its two calls the other way round.
LogDataFirst ==
    << "read_log_data", "users_table", "write_users", "with_columns",
       "time_table", "write_time", "read_songs", "join", "songplays_table",
       "collect_ids", "write_songplays",
       "read_song_data", "songs_table", "write_songs", "artists_table",
       "write_artists", "return",
       "done" >>

\* The statements of main(), process_song_data and process_log_data in the
\* order they run.
Program ==
    << "read_song_data", "songs_table", "write_songs", "artists_table",
       "write_artists", "return",
       "read_log_data", "users_table", "write_users", "with_columns",
       "time_table", "write_time", "read_songs", "join", "songplays_table",
       "collect_ids", "write_songplays",
       "done" >>

Position(stmt) == CHOOSE i \in DOMAIN Program : Program[i] = stmt
After(stmt) == Program[Position(stmt) + 1]

\* An exception that is caught and passed over: the next statement runs.
Swallow(at, error) ==
    /\ pc' = Program[(CHOOSE i \in DOMAIN Program : Program[i] = at) + 1]
    /\ failure' = [at |-> at, error |-> error]

\* Nothing catches an exception: it leaves main().
Propagate(at, error) ==
    /\ pc' = "aborted"
    /\ failure' = [at |-> at, error |-> error]

Init ==
    /\ pc = Program[1]
    /\ zone \in ZoneOffsets
    /\ negEpoch \in BOOLEAN
    /\ df = EmptyBag
    /\ songs_table = EmptyBag
    /\ artists_table = EmptyBag
    /\ users_table = EmptyBag
    /\ time_table = EmptyBag
    /\ song_df = EmptyBag
    /\ songplays_table = EmptyBag
    /\ log_data = EmptyBag
    /\ store \in {EmptyStore, EarlierStore(zone, negEpoch)}
    /\ prior = store
    /\ failure = NoFailure

\* DataFrameWriter.parquet(path, 'overwrite') with partitionBy: a partition
\* column the frame lacks is refused before the path is touched; otherwise
\* what the path held is replaced by what the job leaves.
SinkWrite(t, frame, cols, partCols) ==
    IF ~(partCols \subseteq cols)
    THEN /\ store' = store
         /\ Propagate(pc, "analysis")
    ELSE \E out \in SinkOutcomes(frame, cols, partCols) :
            /\ store' = [store EXCEPT ![t] = out]
            /\ IF out.status = "complete"
               THEN pc' = After(pc) /\ failure' = failure
               ELSE Propagate(pc, IF \E r \in BagToSet(frame) : RowRaises(r)
                                  THEN "udf" ELSE "write")

\* Line 42.  A pattern that matches no file raises.
ReadSongData ==
    /\ pc = "read_song_data"
    /\ \/ \E data \in BagsUpTo(SongRecords, MaxSongRows) \ {EmptyBag} :
            /\ df' = data
            /\ pc' = After(pc)
            /\ failure' = failure
       \/ /\ df' = df
          /\ Propagate(pc, "read")
    /\ UNCHANGED <<zone, negEpoch, songs_table, artists_table, users_table,
                   time_table, song_df, songplays_table, log_data, store,
                   prior>>

\* Line 45.
ExtractSongs ==
    /\ pc = "songs_table"
    /\ songs_table' = Distinct(Select(df, SongColumns))
    /\ pc' = After(pc)
    /\ UNCHANGED <<zone, negEpoch, df, artists_table, users_table, time_table,
                   song_df, songplays_table, log_data, store, prior, failure>>

\* Line 48.
WriteSongs ==
    /\ pc = "write_songs"
    /\ SinkWrite("songs_table", songs_table, SongColumns, SongPartition)
    /\ UNCHANGED <<zone, negEpoch, locals, log_data, prior>>

\* Line 51.
ExtractArtists ==
    /\ pc = "artists_table"
    /\ artists_table' = Distinct(Select(df, ArtistColumns))
    /\ pc' = After(pc)
    /\ UNCHANGED <<zone, negEpoch, df, songs_table, users_table, time_table,
                   song_df, songplays_table, log_data, store, prior, failure>>

\* Line 54.
WriteArtists ==
    /\ pc = "write_artists"
    /\ SinkWrite("artists_table", artists_table, ArtistColumns, NoPartition)
    /\ UNCHANGED <<zone, negEpoch, locals, log_data, prior>>

\* Lines 134 to 135: process_song_data returns and its locals are gone.
ReturnToMain ==
    /\ pc = "return"
    /\ df' = EmptyBag
    /\ songs_table' = EmptyBag
    /\ artists_table' = EmptyBag
    /\ pc' = After(pc)
    /\ UNCHANGED <<zone, negEpoch, users_table, time_table, song_df,
                   songplays_table, log_data, store, prior, failure>>

\* Line 72.
ReadLogData ==
    /\ pc = "read_log_data"
    /\ \/ \E data \in BagsUpTo(LogRecords, MaxLogRows) \ {EmptyBag} :
            /\ df' = data
            /\ log_data' = data
            /\ pc' = After(pc)
            /\ failure' = failure
       \/ /\ df' = df
          /\ log_data' = log_data
          /\ Propagate(pc, "read")
    /\ UNCHANGED <<zone, negEpoch, songs_table, artists_table, users_table,
                   time_table, song_df, songplays_table, store, prior>>

\* Lines 75 and 78: no row is filtered out.
ExtractUsers ==
    /\ pc = "users_table"
    /\ songplays_table' = Select(df, LogSongplayColumns)
    /\ users_table' = Distinct(Select(df, UserColumns))
    /\ pc' = After(pc)
    /\ UNCHANGED <<zone, negEpoch, df, songs_table, artists_table, time_table,
                   song_df, log_data, store, prior, failure>>

\* Line 81.
WriteUsers ==
    /\ pc = "write_users"
    /\ SinkWrite("users_table", users_table, UserColumns, NoPartition)
    /\ UNCHANGED <<zone, negEpoch, locals, log_data, prior>>

\* Lines 84 to 102.  The columns are computed by the job that needs them: a
\* row whose function raises is carried as such until a write evaluates it.
WithColumns ==
    /\ pc = "with_columns"
    /\ df' = MapRows([e \in BagToSet(df) |->
                         WithTimeColumns(e, zone, negEpoch)], df)
    /\ pc' = After(pc)
    /\ UNCHANGED <<zone, negEpoch, songs_table, artists_table, users_table,
                   time_table, song_df, songplays_table, log_data, store,
                   prior, failure>>

\* Line 105.
ExtractTime ==
    /\ pc = "time_table"
    /\ time_table' = Select(df, TimeColumns)
    /\ pc' = After(pc)
    /\ UNCHANGED <<zone, negEpoch, df, songs_table, artists_table,
                   users_table, song_df, songplays_table, log_data, store,
                   prior, failure>>

\* Line 108.
WriteTime ==
    /\ pc = "write_time"
    /\ SinkWrite("time_table", time_table, TimeColumns, TimePartition)
    /\ UNCHANGED <<zone, negEpoch, locals, log_data, prior>>

\* Line 111: the songs table comes from the destination, not from memory.
\* A path that does not exist raises, and so does a read that fails.
ReadSongsTable ==
    /\ pc = "read_songs"
    /\ IF store["songs_table"].status = "absent"
       THEN /\ song_df' = song_df
            /\ Propagate(pc, "read")
       ELSE \/ /\ song_df' = ReadParquet(store["songs_table"].files)
               /\ pc' = After(pc)
               /\ failure' = failure
            \/ /\ song_df' = song_df
               /\ Propagate(pc, "read")
    /\ UNCHANGED <<zone, negEpoch, df, songs_table, artists_table,
                   users_table, time_table, songplays_table, log_data, store,
                   prior>>

\* Line 114.
JoinSongs ==
    /\ pc = "join"
    /\ df' = Join(df, song_df)
    /\ pc' = After(pc)
    /\ UNCHANGED <<zone, negEpoch, songs_table, artists_table, users_table,
                   time_table, song_df, songplays_table, log_data, store,
                   prior, failure>>

\* Line 115.
ExtractSongplays ==
    /\ pc = "songplays_table"
    /\ songplays_table' = SelectJoined(df, SongplayColumns)
    /\ pc' = After(pc)
    /\ UNCHANGED <<zone, negEpoch, df, songs_table, artists_table,
                   users_table, time_table, song_df, log_data, store, prior,
                   failure>>

\* Line 116: the ids are collected from a frame of their own and dropped;
\* songplays_table keeps its columns.
CollectIds ==
    /\ pc = "collect_ids"
    /\ pc' = After(pc)
    /\ UNCHANGED <<zone, negEpoch, locals, log_data, store, prior, failure>>

\* Line 119.
WriteSongplays ==
    /\ pc = "write_songplays"
    /\ SinkWrite("songplays_table", songplays_table, SongplayColumns,
                 SongplayPartition)
    /\ UNCHANGED <<zone, negEpoch, locals, log_data, prior>>

Next ==
    \/ ReadSongData
    \/ ExtractSongs
    \/ WriteSongs
    \/ ExtractArtists
    \/ WriteArtists
    \/ ReturnToMain
    \/ ReadLogData
    \/ ExtractUsers
    \/ WriteUsers
    \/ WithColumns
    \/ ExtractTime
    \/ WriteTime
    \/ ReadSongsTable
    \/ JoinSongs
    \/ ExtractSongplays
    \/ CollectIds
    \/ WriteSongplays

Spec == Init /\ [][Next]_vars

-----------------------------------------------------------------------------
(* Where the run stands.                                                    *)

\* The statement has been started.
Ran(stmt) ==
    IF pc = "aborted" THEN Position(failure.at) >= Position(stmt)
    ELSE Position(pc) > Position(stmt)

\* The statement has run to its end.
Executed(stmt) ==
    IF pc = "aborted" THEN Position(failure.at) > Position(stmt)
    ELSE Position(pc) > Position(stmt)

WriteOf(t) ==
    CASE t = "songs_table"     -> "write_songs"
      [] t = "artists_table"   -> "write_artists"
      [] t = "users_table"     -> "write_users"
      [] t = "time_table"      -> "write_time"
      [] t = "songplays_table" -> "write_songplays"

ThisRun(t) == store[t].status = "complete" /\ store[t].run = "this"

LogColumns == {"ts", "userId", "firstName", "lastName", "gender", "level",
               "sessionId", "location", "userAgent", "song", "page"}

\* The log record a joined row was made from.
EventOf(j) == [c \in LogColumns |-> j.l[c]]

\* The rows of the songs table whose title the event's song equals.
Matches(e) ==
    SumCopies(song_df, {t \in BagToSet(song_df) : SqlEq(t.title, e.song)})

\* The rows of the joined frame, one per songplays row, made from event e.
FactRowsFrom(e) ==
    SumCopies(df, {j \in BagToSet(df) : EventOf(j) = e})

-----------------------------------------------------------------------------
(* The claims.                                                              *)

\* C1: when line 111 reads the songs table back, the destination holds the
\* songs table that line 48 of this same run wrote completely: never the one
\* an earlier run left, never a partly written one.
C1_SongsWrittenBeforeRead ==
    Executed("read_songs") =>
        /\ Executed("write_songs")
        /\ ThisRun("songs_table")
        /\ song_df = ReadParquet(store["songs_table"].files)

\* C1 witness: the songs table was read back while an earlier run's table
\* had been at the path, and what was read is not that table.
C1_Witness ==
    /\ pc = "join"
    /\ prior["songs_table"].status = "complete"
    /\ song_df # ReadParquet(prior["songs_table"].files)
    /\ song_df # EmptyBag

C3_ReferentialIntegrity ==
    Executed("songplays_table") =>
        /\ ThisRun("songs_table")
        /\ ThisRun("artists_table")
        /\ \A f \in BagToSet(songplays_table) :
              /\ \E s \in BagToSet(ReadParquet(store["songs_table"].files)) :
                    s.song_id = f.song_id
              /\ \E a \in BagToSet(ReadParquet(store["artists_table"].files)) :
                    a.artist_id = f.artist_id

\* C3 witness: the songplays frame has a row, and an earlier run had left
\* tables at the destination.
C3_Witness ==
    /\ Executed("songplays_table")
    /\ songplays_table # EmptyBag
    /\ prior["artists_table"].status = "complete"

\* The frame each write statement hands to the sink.
FrameOf(t) ==
    CASE t = "songs_table"     -> songs_table
      [] t = "artists_table"   -> artists_table
      [] t = "users_table"     -> users_table
      [] t = "time_table"      -> time_table
      [] t = "songplays_table" -> songplays_table

\* The write statement of t has run in a frame that is still alive, and
\* neither the sink nor a task of the job failed.
WriteIssued(t) ==
    /\ Ran(WriteOf(t))
    /\ t \in {"songs_table", "artists_table"} => ~Executed("return")
    /\ ~(failure.at = WriteOf(t) /\ failure.error \in {"write", "udf"})

\* C4: once the write statement of any of the five tables has run, the
\* table's path holds exactly the rows of the frame written, nothing else.
C4_FullRefresh ==
    \A t \in Tables :
        WriteIssued(t) => ReadParquet(store[t].files) = FrameOf(t)

\* The same for the four tables other than songplays.
FullRefreshOfDimensions ==
    \A t \in Tables \ {"songplays_table"} :
        WriteIssued(t) =>
            /\ ThisRun(t)
            /\ ReadParquet(store[t].files) = FrameOf(t)

\* The value a row is partitioned by.
Missing == "<missing>"
PartitionValue(r, c) == IF c \in DOMAIN r THEN r[c] ELSE Missing

\* C5: every songplays row is partitioned by the (year, month) of the time
\* row made from the same timestamp.
C5_CalendarConsistency ==
    Executed("songplays_table") =>
        \A f \in BagToSet(songplays_table) :
            \E t \in BagToSet(time_table) :
                /\ t.start_time = f.start_time
                /\ PartitionValue(f, "year") = t.year
                /\ PartitionValue(f, "month") = t.month

\* C6: in every time row, week is the ISO-8601 week number of start_time and
\* weekday the English name of its day of the week.
C6_WeekAndWeekday ==
    Executed("time_table") =>
        \A t \in BagToSet(time_table) :
            ~RowRaises(t) =>
                /\ t.week = ToString(IsoWeek(t.start_time))
                /\ t.weekday = DayName(Weekday(t.start_time))

\* C7: the songs and artists tables have no two equal rows, and they are,
\* as sets of rows, the tables the same input gives again and the tables the
\* input gives with any of its rows appended once more.
C7_DedupIdempotence ==
    Executed("artists_table") /\ ~Executed("return") =>
        /\ \A r \in BagToSet(songs_table) : songs_table[r] = 1
        /\ \A r \in BagToSet(artists_table) : artists_table[r] = 1
        /\ \A again \in SubBag(df) :
              /\ BagToSet(Distinct(Select(df (+) again, SongColumns)))
                    = BagToSet(songs_table)
              /\ BagToSet(Distinct(Select(df (+) again, ArtistColumns)))
                    = BagToSet(artists_table)

\* C7 witness: both tables were made from an input in which a record
\* occurs twice.
C7_Witness ==
    /\ Executed("artists_table") /\ ~Executed("return")
    /\ \E r \in BagToSet(df) : df[r] = 2
    /\ BagCardinality(songs_table) < BagCardinality(df)

\* C8: once a statement has raised, the run is over: no statement is
\* enabled, the tables whose write comes later hold what they held when the
\* run started, and the tables written before stay completely written.
C8_FailureAborts ==
    failure # NoFailure =>
        /\ pc = "aborted"
        /\ ~ENABLED Next
        /\ \A t \in Tables :
              /\ Position(WriteOf(t)) > Position(failure.at) =>
                    store[t] = prior[t]
              /\ Position(WriteOf(t)) < Position(failure.at) => ThisRun(t)

\* C8 witness: a write in the middle of the run failed, with tables written
\* before it and tables of an earlier run after it.
C8_Witness ==
    /\ failure.at = "write_users"
    /\ prior["time_table"].status = "complete"
    /\ store["users_table"].status = "partial"

Negative(x) == x.kind = "long" /\ x.neg /\ (x.q > 0 \/ x.r > 0)

\* C9, as claimed: the time table is not written, and the run aborts at its
\* write, whenever some timestamp is missing, not a number, or negative.
C9_RejectsNegative ==
    Ran("write_time") =>
        ((\E e \in BagToSet(log_data) : IntRaises(e.ts) \/ Negative(e.ts)) =>
            /\ pc = "aborted" /\ failure.at = "write_time"
            /\ ~ThisRun("time_table"))

\* C9, amended: the time table is not written, and the run aborts at its
\* write, whenever some timestamp is missing or not a number; the time table
\* is written only when every timestamp is a number.
C9_RejectsMissingOrText ==
    Ran("write_time") =>
        /\ (\E e \in BagToSet(log_data) : IntRaises(e.ts)) =>
              /\ pc = "aborted" /\ failure.at = "write_time"
              /\ ~ThisRun("time_table")
        /\ ThisRun("time_table") =>
              \A e \in BagToSet(log_data) : e.ts.kind = "long"

\* C9 witness: the write of the time table raised on a log with a missing
\* timestamp.
C9_Witness ==
    /\ failure.at = "write_time"
    /\ failure.error = "udf"
    /\ \E e \in BagToSet(log_data) : e.ts.kind = "null"

\* C10: every songplays row is made from a log record whose page is
\* NextSong.
C10_OnlyNextSong ==
    Executed("songplays_table") =>
        \A j \in BagToSet(df) : j.l.page = "NextSong"

====
